---- MODULE Spec2Model ----
(***************************************************************************)
(* Model of check-availability.js: the availability probe                  *)
(* (checkAvailability), the notification helper (sendNotification), the    *)
(* loop controller (runLoop) and the entry point.                          *)
(*                                                                         *)
(* One control thread; pc is the position of that thread in the source.    *)
(* Every awaited call into puppeteer is an external call whose outcome     *)
(* (resolve / reject) is chosen nondeterministically.                      *)
(***************************************************************************)
EXTENDS Integers, Sequences, FiniteSets, TLC

VARIABLES
    config,        \* parseArgs() result: loop, notify, interval, platform
    pc,            \* position of the control thread
    iter,          \* number of completed runLoop iterations
    browser,       \* the `browser` local of checkAvailability
    openSessions,  \* browser sessions launched and not yet closed
    activeProbes,  \* checkAvailability invocations entered and not yet left
    error,         \* kind of the exception that reached the catch block
    dom,           \* DOM after the search-URL navigation (filter phase)
    editClicked,   \* editButton.click() was executed
    clickedIdx,    \* index of the element clicked by the date-area script, 0 = none
    page,          \* DOM after the bookNow navigation (result phase)
    results,       \* value returned by the scraping page.evaluate
    reported,      \* the report block (lines 376-438) has run in this probe
    retval,        \* value checkAvailability returned: "none", "true", "false"
    probeNotifs,   \* sendNotification calls made inside checkAvailability
    loopNotifs,    \* sendNotification calls made by runLoop in this iteration
    desktopSent,   \* platform notification commands that succeeded
    bells,         \* terminal bells written
    trace,         \* step kinds of the current iteration, in order
    idleMs,        \* delay of the last interval sleep, in milliseconds
    apiResponses,  \* the `apiResponses` array of the current probe
    pending,       \* response handlers awaiting response.json()
    respCount,     \* responses the page has received in this probe
    apiLogged,     \* apiResponses entries the report block has logged
    lateEntries,   \* entries pushed after the report block ran
    reportLog      \* sections the report block has logged, in order

vars == <<config, pc, iter, browser, openSessions, activeProbes, error, dom,
          editClicked, clickedIdx, page, results, reported, retval,
          probeNotifs, loopNotifs, desktopSent, bells, trace, idleMs,
          apiResponses, pending, respCount, apiLogged, lateEntries, reportLog>>

\* The state of the response interceptor and of the report's log.
apiVars == <<apiResponses, pending, respCount, apiLogged, lateEntries, reportLog>>

(***************************************************************************)
(* Bounds and program constants                                            *)
(***************************************************************************)
MaxIter == 2
MaxCards == 2
MaxK == 1
MaxElems == 2
OverflowInterval == 35792
MaxResp == 1
MaxApiSites == 1

DefaultInterval == 15
MsPerSecond == 1000
SecondsPerMinute == 60

\* Largest delay setTimeout honours (milliseconds); a larger delay becomes 1.
TimeoutMax == 2147483647

Intervals == {1, DefaultInterval, OverflowInterval}
Platforms == {"darwin", "linux", "win32"}

Configs == [loop: BOOLEAN, notify: BOOLEAN, interval: Intervals, platform: Platforms]

\* An element of querySelectorAll('button, div, span, a, input'):
\*   rv   - its text contains the requested RV type (case-insensitive)
\*   date - its text contains one of the date-area keywords
Elements == [rv: BOOLEAN, date: BOOLEAN]

SeqsUpTo(S, n) == UNION { [1..k -> S] : k \in 0..n }

Doms == [hasEdit: BOOLEAN, elements: SeqsUpTo(Elements, MaxElems)]

\* The rendered result page:
\*   cards     - number of elements matching the site-card selectors
\*   hasCount  - the page has a text "<k> site(s) available"
\*   textCount - the k of the first such text (0 when there is none)
\*   noSites   - the body text contains one of the "no sites" phrases
Pages == { p \in [cards: 0..MaxCards, hasCount: BOOLEAN, textCount: 0..MaxK, noSites: BOOLEAN] :
             ~p.hasCount => p.textCount = 0 }

NoDom == [hasEdit |-> FALSE, elements |-> <<>>]
NoPage == [cards |-> 0, hasCount |-> FALSE, textCount |-> 0, noSites |-> FALSE]
NoResults == [sitesFound |-> 0, noSitesMessage |-> FALSE]

(***************************************************************************)
(* Helpers                                                                 *)
(***************************************************************************)

\* sleep(ms) resolves after setTimeout's effective delay. The argument is
\* given in minutes (config.interval); the delay is config.interval*60*1000.
TimerDelay(minutes) ==
    IF minutes * SecondsPerMinute > TimeoutMax \div MsPerSecond \/ minutes < 1
    THEN 1
    ELSE minutes * SecondsPerMinute * MsPerSecond

\* execSync(cmd): returns when the command exits with status 0, throws otherwise.
execSync(cmdOk) == IF cmdOk THEN "ok" ELSE "throw"

sendNotification_noCatch(platform, cmdOk) ==
    LET body == IF platform = "darwin" THEN execSync(cmdOk)
                ELSE IF platform = "linux" THEN execSync(cmdOk)
                ELSE "ok"
    IN  [threw   |-> body = "throw",
         desktop |-> platform \in {"darwin", "linux"} /\ body = "ok",
         bell    |-> body = "ok"]

\* sendNotification(title, message): the platform command inside try/catch,
\* then the terminal bell.
sendNotification(platform, cmdOk) ==
    LET body == IF platform = "darwin" THEN execSync(cmdOk)
                ELSE IF platform = "linux" THEN execSync(cmdOk)
                ELSE "ok"
    IN  [threw   |-> FALSE,
         desktop |-> platform \in {"darwin", "linux"} /\ body = "ok",
         bell    |-> TRUE]

\* Index of the first element the date-area script clicks, 0 when none.
FirstDateIdx(els) ==
    IF \E i \in 1..Len(els) : els[i].date
    THEN CHOOSE i \in 1..Len(els) : els[i].date /\ \A j \in 1..(i-1) : ~els[j].date
    ELSE 0

\* Index of the first element whose text matches the requested RV type.
FirstRvIdx(els) ==
    IF \E i \in 1..Len(els) : els[i].rv
    THEN CHOOSE i \in 1..Len(els) : els[i].rv /\ \A j \in 1..(i-1) : ~els[j].rv
    ELSE 0

\* A network response seen by the page:
\*   api    - its URL contains '/api/'
\*   kw     - its URL contains availability, search, sites or campground
\*   json   - its body parses as JSON
\*   array  - the JSON has a sites/results/campsites/availability array
\*   nSites - the number of records in that array
Responses ==
    { r \in [api: BOOLEAN, kw: BOOLEAN, json: BOOLEAN, array: BOOLEAN, nSites: 0..MaxApiSites] :
        /\ ~r.json => ~r.array
        /\ ~r.array => r.nSites = 0 }

UrlMatches_anyPart(r) == r.api \/ r.kw

\* The URL test of the response handler.
UrlMatches(r) == r.api /\ r.kw

\* The handler after `await response.json()`: push the entry, or ignore the
\* rejection (body not JSON, or body no longer available).
HandlerOutcome(r, bodyOk) ==
    IF r.json /\ bodyOk THEN "push" ELSE "ignore"

\* The records of the first captured response that has a recognizable array.
HasApiArray(api) == \E i \in 1..Len(api) : api[i].array

ApiSites(api) ==
    LET i == CHOOSE k \in 1..Len(api) : api[k].array /\ \A j \in 1..(k-1) : ~api[j].array
    IN  api[i].nSites

Found_apiFirst(res, api) ==
    IF HasApiArray(api) THEN ApiSites(api) > 0 ELSE res.sitesFound > 0

\* The value checkAvailability returns: results.sitesFound.length > 0.
Found(res, api) == res.sitesFound > 0

\* The sections the report block logs, in order: the captured API responses
\* (when there are any), then the outcome of the DOM scraping.
ReportSections(res, api) ==
    (IF Len(api) > 0 THEN <<"api">> ELSE <<>>) \o
    (IF res.sitesFound > 0 THEN <<"dom_sites">>
     ELSE IF res.noSitesMessage THEN <<"dom_none">>
     ELSE <<"dom_unknown">>)

\* Append a step kind to the trace, collapsing consecutive repeats.
Step(tr, kind) ==
    IF Len(tr) > 0 /\ tr[Len(tr)] = kind THEN tr ELSE Append(tr, kind)

\* A rejected await inside the guarded body transfers control to the catch.
Throw(kind) ==
    /\ pc' = "catch"
    /\ error' = kind

(***************************************************************************)
(* Initial state: parseArgs() has produced the configuration.              *)
(***************************************************************************)
Init ==
    /\ config \in Configs
    /\ pc = "main"
    /\ iter = 0
    /\ browser = "undefined"
    /\ openSessions = 0
    /\ activeProbes = 0
    /\ error = "none"
    /\ dom = NoDom
    /\ editClicked = FALSE
    /\ clickedIdx = 0
    /\ page = NoPage
    /\ results = NoResults
    /\ reported = FALSE
    /\ retval = "none"
    /\ probeNotifs = 0
    /\ loopNotifs = 0
    /\ desktopSent = 0
    /\ bells = 0
    /\ trace = <<>>
    /\ idleMs = 0
    /\ apiResponses = <<>>
    /\ pending = <<>>
    /\ respCount = 0
    /\ apiLogged = 0
    /\ lateEntries = 0
    /\ reportLog = <<>>

(***************************************************************************)
(* Entry point and checkAvailability                                       *)
(***************************************************************************)

\* Entry point: runLoop(config) or checkAvailability(config).
Main ==
    /\ pc = "main"
    /\ pc' = "check"
    /\ UNCHANGED apiVars
    /\ UNCHANGED <<config, iter, browser, openSessions, activeProbes, error, dom,
                   editClicked, clickedIdx, page, results, reported, retval,
                   probeNotifs, loopNotifs, desktopSent, bells, trace, idleMs>>

\* checkAvailability entry: the header logs and `let browser;`.
CheckStart ==
    /\ pc = "check"
    /\ pc' = "launch"
    /\ activeProbes' = activeProbes + 1
    /\ browser' = "undefined"
    /\ error' = "none"
    /\ dom' = NoDom
    /\ editClicked' = FALSE
    /\ clickedIdx' = 0
    /\ page' = NoPage
    /\ results' = NoResults
    /\ reported' = FALSE
    /\ retval' = "none"
    /\ probeNotifs' = 0
    /\ loopNotifs' = 0
    /\ desktopSent' = 0
    /\ bells' = 0
    /\ trace' = <<>>
    /\ apiResponses' = <<>>
    /\ pending' = <<>>
    /\ respCount' = 0
    /\ apiLogged' = 0
    /\ lateEntries' = 0
    /\ reportLog' = <<>>
    /\ UNCHANGED <<config, iter, openSessions, idleMs>>

\* browser = await puppeteer.launch(...)
Launch ==
    /\ pc = "launch"
    /\ \E ok \in BOOLEAN :
         IF ok
         THEN /\ browser' = "open"
              /\ openSessions' = openSessions + 1
              /\ pc' = "newpage"
              /\ UNCHANGED error
         ELSE /\ Throw("launch")
              /\ UNCHANGED <<browser, openSessions>>
    /\ UNCHANGED apiVars
    /\ UNCHANGED <<config, iter, activeProbes, dom, editClicked, clickedIdx, page,
                   results, reported, retval, probeNotifs, loopNotifs, desktopSent,
                   bells, trace, idleMs>>

\* newPage, setViewport, setUserAgent, registration of the response handler.
NewPage ==
    /\ pc = "newpage"
    /\ \E ok \in BOOLEAN :
         IF ok THEN pc' = "goto_base" /\ UNCHANGED error
               ELSE Throw("newpage")
    /\ UNCHANGED apiVars
    /\ UNCHANGED <<config, iter, browser, openSessions, activeProbes, dom,
                   editClicked, clickedIdx, page, results, reported, retval,
                   probeNotifs, loopNotifs, desktopSent, bells, trace, idleMs>>

\* page.goto(config.url) and the 3 s settle sleep.
GotoBase ==
    /\ pc = "goto_base"
    /\ \E ok \in BOOLEAN :
         IF ok THEN /\ pc' = "shot_loaded"
                    /\ trace' = Step(trace, "navigate")
                    /\ UNCHANGED error
               ELSE Throw("nav") /\ UNCHANGED trace
    /\ UNCHANGED apiVars
    /\ UNCHANGED <<config, iter, browser, openSessions, activeProbes, dom,
                   editClicked, clickedIdx, page, results, reported, retval,
                   probeNotifs, loopNotifs, desktopSent, bells, idleMs>>

\* page.screenshot(...) between two steps.
Screenshot(from, to) ==
    /\ pc = from
    /\ \E ok \in BOOLEAN :
         IF ok THEN pc' = to /\ UNCHANGED error
               ELSE Throw("screenshot")
    /\ UNCHANGED apiVars
    /\ UNCHANGED <<config, iter, browser, openSessions, activeProbes, dom,
                   editClicked, clickedIdx, page, results, reported, retval,
                   probeNotifs, loopNotifs, desktopSent, bells, trace, idleMs>>

ScreenshotLoaded == Screenshot("shot_loaded", "goto_search")

\* page.goto(searchUrl) and the 5 s settle sleep; the page shows its controls.
GotoSearch ==
    /\ pc = "goto_search"
    /\ \/ /\ \E d \in Doms : dom' = d
          /\ pc' = "shot_search"
          /\ trace' = Step(trace, "navigate")
          /\ UNCHANGED error
       \/ /\ Throw("nav")
          /\ UNCHANGED <<dom, trace>>
    /\ UNCHANGED apiVars
    /\ UNCHANGED <<config, iter, browser, openSessions, activeProbes,
                   editClicked, clickedIdx, page, results, reported, retval,
                   probeNotifs, loopNotifs, desktopSent, bells, idleMs>>

ScreenshotSearch == Screenshot("shot_search", "find_edit")

\* Lines 204-230: page.$ for the Edit control; when found: click, 2 s sleep,
\* screenshot.
FindEdit ==
    /\ pc = "find_edit"
    /\ trace' = Step(trace, "filter")
    /\ \E outcome \in {"ok", "query_throws", "click_throws", "shot_throws"} :
         CASE outcome = "query_throws" ->
                Throw("eval") /\ UNCHANGED editClicked
           [] outcome = "click_throws" ->
                dom.hasEdit /\ Throw("eval") /\ UNCHANGED editClicked
           [] outcome = "shot_throws" ->
                dom.hasEdit /\ Throw("screenshot") /\ editClicked' = TRUE
           [] OTHER ->
                /\ pc' = "date_area"
                /\ editClicked' = dom.hasEdit
                /\ UNCHANGED error
    /\ UNCHANGED apiVars
    /\ UNCHANGED <<config, iter, browser, openSessions, activeProbes, dom,
                   clickedIdx, page, results, reported, retval,
                   probeNotifs, loopNotifs, desktopSent, bells, idleMs>>

\* Lines 233-257: the date-area script clicks the first element whose text
\* has a date keyword; the whole block is inside its own try/catch, so a
\* rejection (before or after el.click() ran in the page) is swallowed.
DateArea ==
    /\ pc = "date_area"
    /\ \E ok \in BOOLEAN :
         IF ok
         THEN clickedIdx' = FirstDateIdx(dom.elements)
         ELSE clickedIdx' \in {0, FirstDateIdx(dom.elements)}
    /\ pc' = "calendar"
    /\ trace' = Step(trace, "filter")
    /\ UNCHANGED apiVars
    /\ UNCHANGED <<config, iter, browser, openSessions, activeProbes, error, dom,
                   editClicked, page, results, reported, retval,
                   probeNotifs, loopNotifs, desktopSent, bells, idleMs>>

\* Lines 260-288: the calendar script only inspects the buttons.
Calendar ==
    /\ pc = "calendar"
    /\ \E ok \in BOOLEAN :
         IF ok THEN pc' = "goto_booknow" /\ UNCHANGED error
               ELSE Throw("eval")
    /\ trace' = Step(trace, "filter")
    /\ UNCHANGED apiVars
    /\ UNCHANGED <<config, iter, browser, openSessions, activeProbes, dom,
                   editClicked, clickedIdx, page, results, reported, retval,
                   probeNotifs, loopNotifs, desktopSent, bells, idleMs>>

\* page.goto(bookNowUrl) and the 5 s settle sleep: the document of the
\* filter phase is replaced by the result page.
GotoBookNow ==
    /\ pc = "goto_booknow"
    /\ \/ /\ \E p \in Pages : page' = p
          /\ dom' = NoDom
          /\ editClicked' = FALSE
          /\ clickedIdx' = 0
          /\ pc' = "shot_booknow"
          /\ trace' = Step(trace, "navigate")
          /\ UNCHANGED error
       \/ /\ Throw("nav")
          /\ UNCHANGED <<page, trace, dom, editClicked, clickedIdx>>
    /\ UNCHANGED apiVars
    /\ UNCHANGED <<config, iter, browser, openSessions, activeProbes,
                   results, reported, retval,
                   probeNotifs, loopNotifs, desktopSent, bells, idleMs>>

\* The step that follows the bookNow screenshot: the result wait.
AfterBookNow_skipWait == "scrape"

AfterBookNow == "wait"

ScreenshotBookNow == Screenshot("shot_booknow", AfterBookNow)

\* await sleep(config.waitForResults)
WaitForResults ==
    /\ pc = "wait"
    /\ pc' = "shot_results"
    /\ trace' = Step(trace, "wait")
    /\ UNCHANGED apiVars
    /\ UNCHANGED <<config, iter, browser, openSessions, activeProbes, error, dom,
                   editClicked, clickedIdx, page, results, reported, retval,
                   probeNotifs, loopNotifs, desktopSent, bells, idleMs>>

ScreenshotResults == Screenshot("shot_results", "scrape")

\* The scraping script: one sitesFound entry per site card, noSitesMessage
\* set when the body has a "no sites" phrase.
ScrapeResults(p) ==
    [sitesFound |-> p.cards, noSitesMessage |-> p.noSites]

Scrape ==
    /\ pc = "scrape"
    /\ \E ok \in BOOLEAN :
         IF ok THEN /\ results' = ScrapeResults(page)
                    /\ pc' = "report"
                    /\ trace' = Step(trace, "extract")
                    /\ UNCHANGED error
               ELSE Throw("eval") /\ UNCHANGED <<results, trace>>
    /\ UNCHANGED apiVars
    /\ UNCHANGED <<config, iter, browser, openSessions, activeProbes, dom,
                   editClicked, clickedIdx, page, reported, retval,
                   probeNotifs, loopNotifs, desktopSent, bells, idleMs>>

\* The condition under which the report block notifies.
ShouldNotify_ignoreFlag(cfg, res) == res.sitesFound > 0

ShouldNotify(cfg, res) == res.sitesFound > 0 /\ cfg.notify

\* Lines 376-438: the report; notifies when sites were found and notify is set.
Report ==
    /\ pc = "report"
    /\ reported' = TRUE
    /\ trace' = Step(trace, "report")
    /\ IF ShouldNotify(config, results)
       THEN \E cmdOk \in BOOLEAN :
              LET r == sendNotification(config.platform, cmdOk) IN
              /\ probeNotifs' = probeNotifs + 1
              /\ desktopSent' = desktopSent + (IF r.desktop THEN 1 ELSE 0)
              /\ bells' = bells + (IF r.bell THEN 1 ELSE 0)
              /\ IF r.threw THEN Throw("notify")
                            ELSE pc' = "close" /\ UNCHANGED error
       ELSE /\ pc' = "close"
            /\ UNCHANGED <<probeNotifs, desktopSent, bells, error>>
    /\ apiLogged' = Len(apiResponses)
    /\ reportLog' = ReportSections(results, apiResponses)
    /\ UNCHANGED <<apiResponses, pending, respCount, lateEntries>>
    /\ UNCHANGED <<config, iter, browser, openSessions, activeProbes, dom,
                   editClicked, clickedIdx, page, results, retval,
                   loopNotifs, idleMs>>

Close_skip ==
    /\ pc = "close"
    /\ pc' = "return"
    /\ UNCHANGED apiVars
    /\ UNCHANGED <<config, iter, browser, openSessions, activeProbes, error, dom,
                   editClicked, clickedIdx, page, results, reported, retval,
                   probeNotifs, loopNotifs, desktopSent, bells, trace, idleMs>>

\* await browser.close() at the end of the guarded body.
Close ==
    /\ pc = "close"
    /\ \E ok \in BOOLEAN :
         IF ok
         THEN /\ browser' = "closed"
              /\ openSessions' = openSessions - 1
              /\ pc' = "return"
              /\ UNCHANGED error
         ELSE /\ Throw("close")
              /\ UNCHANGED <<browser, openSessions>>
    /\ UNCHANGED apiVars
    /\ UNCHANGED <<config, iter, activeProbes, dom, editClicked, clickedIdx, page,
                   results, reported, retval, probeNotifs, loopNotifs, desktopSent,
                   bells, trace, idleMs>>

\* return results.sitesFound.length > 0
Return ==
    /\ pc = "return"
    /\ retval' = IF Found(results, apiResponses) THEN "true" ELSE "false"
    /\ activeProbes' = activeProbes - 1
    /\ pc' = "returned"
    /\ UNCHANGED apiVars
    /\ UNCHANGED <<config, iter, browser, openSessions, error, dom, editClicked,
                   clickedIdx, page, results, reported, probeNotifs, loopNotifs,
                   desktopSent, bells, trace, idleMs>>

Catch_noClose ==
    /\ pc = "catch"
    /\ retval' = "false"
    /\ activeProbes' = activeProbes - 1
    /\ pc' = "returned"
    /\ UNCHANGED apiVars
    /\ UNCHANGED <<config, iter, browser, openSessions, error, dom, editClicked,
                   clickedIdx, page, results, reported, probeNotifs, loopNotifs,
                   desktopSent, bells, trace, idleMs>>

\* catch (error): logError, `if (browser) await browser.close()`, return false.
\* The close is not guarded: when it rejects, checkAvailability rejects.
Catch ==
    /\ pc = "catch"
    /\ activeProbes' = activeProbes - 1
    /\ IF browser = "undefined"
       THEN /\ retval' = "false"
            /\ pc' = "returned"
            /\ UNCHANGED <<browser, openSessions>>
       ELSE \E ok \in BOOLEAN :
              IF ok
              THEN /\ browser' = "closed"
                   /\ openSessions' = openSessions - 1
                   /\ retval' = "false"
                   /\ pc' = "returned"
              ELSE /\ pc' = "escaped"
                   /\ UNCHANGED <<browser, openSessions, retval>>
    /\ UNCHANGED apiVars
    /\ UNCHANGED <<config, iter, error, dom, editClicked, clickedIdx, page,
                   results, reported, probeNotifs, loopNotifs, desktopSent,
                   bells, trace, idleMs>>

(***************************************************************************)
(* The response interceptor (page.on('response'))                          *)
(***************************************************************************)

\* The handler is registered once the page exists and runs while the
\* session is open.
HandlerRegistered ==
    /\ browser = "open"
    /\ pc \notin {"newpage", "escaped", "crashed"}
    /\ error # "newpage"

\* A response arrives: the handler tests the URL and, when it matches,
\* starts `await response.json()`.
OnResponse ==
    /\ HandlerRegistered
    /\ respCount < MaxResp
    /\ \E r \in Responses :
         /\ respCount' = respCount + 1
         /\ pending' = IF UrlMatches(r) THEN Append(pending, r) ELSE pending
    /\ UNCHANGED <<config, pc, iter, browser, openSessions, activeProbes, error, dom,
                   editClicked, clickedIdx, page, results, reported, retval,
                   probeNotifs, loopNotifs, desktopSent, bells, trace, idleMs,
                   apiResponses, apiLogged, lateEntries, reportLog>>

\* response.json() settles for the oldest waiting handler, at any later
\* point of the run: the entry is pushed, or the rejection is ignored.
HandlerDone ==
    /\ pc # "crashed"
    /\ Len(pending) > 0
    /\ \E bodyOk \in BOOLEAN :
         LET r == Head(pending)
             o == HandlerOutcome(r, bodyOk)
         IN  /\ pending' = Tail(pending)
             /\ CASE o = "push" ->
                       /\ apiResponses' = Append(apiResponses, r)
                       /\ lateEntries' = lateEntries + (IF reported THEN 1 ELSE 0)
                       /\ UNCHANGED <<pc, error>>
                  [] o = "ignore" ->
                       UNCHANGED <<apiResponses, lateEntries, pc, error>>
                  [] OTHER ->
                       /\ pc' = "crashed"
                       /\ error' = "handler"
                       /\ UNCHANGED <<apiResponses, lateEntries>>
    /\ UNCHANGED <<config, iter, browser, openSessions, activeProbes, dom,
                   editClicked, clickedIdx, page, results, reported, retval,
                   probeNotifs, loopNotifs, desktopSent, bells, trace, idleMs,
                   respCount, apiLogged, reportLog>>

(***************************************************************************)
(* runLoop and the rest of the entry point                                 *)
(***************************************************************************)

LoopFound_once ==
    /\ pc = "returned"
    /\ config.loop
    /\ IF retval = "true" /\ config.notify /\ iter = 0
       THEN \E cmdOk \in BOOLEAN :
              LET r == sendNotification(config.platform, cmdOk) IN
              /\ loopNotifs' = loopNotifs + 1
              /\ desktopSent' = desktopSent + (IF r.desktop THEN 1 ELSE 0)
              /\ bells' = bells + (IF r.bell THEN 1 ELSE 0)
              /\ pc' = IF r.threw THEN "escaped" ELSE "loop_sleep"
       ELSE /\ pc' = "loop_sleep"
            /\ UNCHANGED <<loopNotifs, desktopSent, bells>>
    /\ UNCHANGED apiVars
    /\ UNCHANGED <<config, iter, browser, openSessions, activeProbes, error, dom,
                   editClicked, clickedIdx, page, results, reported, retval,
                   probeNotifs, trace, idleMs>>

\* Lines 457-465: after the probe returned, runLoop notifies when found.
LoopFound ==
    /\ pc = "returned"
    /\ config.loop
    /\ IF retval = "true" /\ config.notify
       THEN \E cmdOk \in BOOLEAN :
              LET r == sendNotification(config.platform, cmdOk) IN
              /\ loopNotifs' = loopNotifs + 1
              /\ desktopSent' = desktopSent + (IF r.desktop THEN 1 ELSE 0)
              /\ bells' = bells + (IF r.bell THEN 1 ELSE 0)
              /\ pc' = IF r.threw THEN "escaped" ELSE "loop_sleep"
       ELSE /\ pc' = "loop_sleep"
            /\ UNCHANGED <<loopNotifs, desktopSent, bells>>
    /\ UNCHANGED apiVars
    /\ UNCHANGED <<config, iter, browser, openSessions, activeProbes, error, dom,
                   editClicked, clickedIdx, page, results, reported, retval,
                   probeNotifs, trace, idleMs>>

\* Lines 467-469: await sleep(config.interval * 60 * 1000), then loop.
LoopSleep ==
    /\ pc = "loop_sleep"
    /\ iter < MaxIter
    /\ idleMs' = TimerDelay(config.interval)
    /\ trace' = Step(trace, "sleep")
    /\ iter' = iter + 1
    /\ pc' = "check"
    /\ UNCHANGED apiVars
    /\ UNCHANGED <<config, browser, openSessions, activeProbes, error, dom,
                   editClicked, clickedIdx, page, results, reported, retval,
                   probeNotifs, loopNotifs, desktopSent, bells>>

\* Single-shot mode: the entry point's await completes and the process ends.
Exit ==
    /\ pc = "returned"
    /\ ~config.loop
    /\ pc' = "exit"
    /\ UNCHANGED apiVars
    /\ UNCHANGED <<config, iter, browser, openSessions, activeProbes, error, dom,
                   editClicked, clickedIdx, page, results, reported, retval,
                   probeNotifs, loopNotifs, desktopSent, bells, trace, idleMs>>

\* A rejection that left checkAvailability is handled nowhere: runLoop's
\* while loop is abandoned and the entry point's promise rejects.
Abort ==
    /\ pc = "escaped"
    /\ pc' = "crashed"
    /\ UNCHANGED apiVars
    /\ UNCHANGED <<config, iter, browser, openSessions, activeProbes, error, dom,
                   editClicked, clickedIdx, page, results, reported, retval,
                   probeNotifs, loopNotifs, desktopSent, bells, trace, idleMs>>

Next ==
    \/ Main
    \/ CheckStart
    \/ Launch
    \/ NewPage
    \/ GotoBase
    \/ ScreenshotLoaded
    \/ GotoSearch
    \/ ScreenshotSearch
    \/ FindEdit
    \/ DateArea
    \/ Calendar
    \/ GotoBookNow
    \/ ScreenshotBookNow
    \/ WaitForResults
    \/ ScreenshotResults
    \/ Scrape
    \/ Report
    \/ Close
    \/ Return
    \/ Catch
    \/ LoopFound
    \/ LoopSleep
    \/ Exit
    \/ Abort

\* Runs in which the page's responses never pass the handler's URL test
\* (apiResponses stays empty).
Spec == Init /\ [][Next]_vars

\* Single-shot runs (no --loop) with intercepted responses: one probe, then
\* the process ends. The interval is not used in this mode and the platform
\* plays no part in the interceptor; both are fixed.
InitApi ==
    /\ Init
    /\ ~config.loop
    /\ config.interval = DefaultInterval
    /\ config.platform = "linux"

NextApi ==
    \/ Main
    \/ CheckStart
    \/ Launch
    \/ NewPage
    \/ GotoBase
    \/ ScreenshotLoaded
    \/ GotoSearch
    \/ ScreenshotSearch
    \/ FindEdit
    \/ DateArea
    \/ Calendar
    \/ GotoBookNow
    \/ ScreenshotBookNow
    \/ WaitForResults
    \/ ScreenshotResults
    \/ Scrape
    \/ Report
    \/ Close
    \/ Return
    \/ Catch
    \/ Exit
    \/ Abort
    \/ OnResponse
    \/ HandlerDone

SpecApi == InitApi /\ [][NextApi]_vars

\* Every configuration, loop mode included, with intercepted responses.
NextFull ==
    \/ Next
    \/ OnResponse
    \/ HandlerDone

SpecFull == Init /\ [][NextFull]_vars

TypeOK ==
    /\ config \in Configs
    /\ iter \in 0..MaxIter
    /\ browser \in {"undefined", "open", "closed"}
    /\ openSessions \in 0..(MaxIter + 1)
    /\ activeProbes \in 0..1
    /\ dom \in Doms
    /\ page \in Pages
    /\ clickedIdx \in 0..MaxElems
    /\ retval \in {"none", "true", "false"}

(***************************************************************************)
(* Properties                                                              *)
(***************************************************************************)

\* C1: whenever checkAvailability has returned and the browser session was
\* opened in that invocation, browser.close() has completed: the session is
\* closed, on the success path and on every failure path.
C1_SessionClosedOnReturn ==
    retval # "none" => (browser # "open" /\ openSessions = 0)

\* C1 witness: a probe that failed at a navigation after the session was
\* opened has returned with the session closed.
C1_Witness ==
    retval = "false" /\ error = "nav" /\ browser = "closed" /\ pc = "returned"

\* C2: every exception raised inside a probe is contained: checkAvailability
\* returns false and never throws, so runLoop is never aborted.
C2_ProbeNeverThrows ==
    pc \notin {"escaped", "crashed"}

\* C3: the reported result is the number k of the first page text
\* "<k> site(s) available", and 0 when the page has no such text, whatever
\* else the page contains.
C3_ReportsTextCount ==
    reported => results.sitesFound = page.textCount

\* C4: in loop mode a probe that follows another starts only after an idle
\* time of at least interval * 60 seconds.
C4_IdleAtLeastInterval ==
    (pc = "check" /\ iter > 0) =>
        idleMs \div MsPerSecond >= config.interval * SecondsPerMinute

\* C5 (as stated): when a probe has returned, a notification was dispatched
\* in it if and only if notify is set and the probe's result is positive;
\* none is sent when the probe fails.
C5_NotifyIffPositiveReturn ==
    retval # "none" => ((probeNotifs > 0) <=> (config.notify /\ retval = "true"))

\* C5 (amended): a notification is dispatched inside a probe if and only if
\* notify is set and the report step ran with a count > 0; runLoop dispatches
\* one if and only if notify is set and the probe returned true. None is sent
\* when notify is off, when nothing was found, or when the probe failed
\* before its report step.
C5_NotifyIffCountPositive ==
    /\ (probeNotifs > 0) <=> (reported /\ config.notify /\ results.sitesFound > 0)
    /\ (pc = "loop_sleep") => ((loopNotifs > 0) <=> (config.notify /\ retval = "true"))
    /\ (loopNotifs > 0) => (config.notify /\ retval = "true")

\* C5 witness: notify set, sites found, the probe and the loop both notified.
C5_Witness ==
    /\ config.notify /\ results.sitesFound > 0 /\ retval = "true"
    /\ probeNotifs = 1 /\ loopNotifs = 1

\* C6: whenever the page has the "no sites available" phrase the probe
\* reports zero / not found and dispatches no notification, whatever else
\* the page contains.
C6_NoSitesPhraseMeansNone ==
    (reported /\ page.noSites) =>
        (results.sitesFound = 0 /\ probeNotifs = 0 /\ retval # "true")

\* C7: at every moment at most one probe is active and at most one browser
\* session is open; a probe starts with no session open, and a probe that
\* follows another starts only after that one returned and the interval
\* sleep finished.
C7_OneProbeOneSession ==
    /\ activeProbes <= 1
    /\ openSessions <= 1
    /\ (pc \in {"check", "launch"}) => openSessions = 0
    /\ (pc = "check") => activeProbes = 0
    /\ (pc = "check" /\ iter > 0) =>
          (retval # "none" /\ Len(trace) > 0 /\ trace[Len(trace)] = "sleep")

\* C7 witness: a second probe of a loop run has its session open.
C7_Witness ==
    iter > 0 /\ activeProbes = 1 /\ openSessions = 1 /\ browser = "open"

\* C8: when the DOM has an element whose text matches the requested RV type,
\* the first such element has been clicked exactly once when the filter
\* phase is over.
C8_RvElementClickedOnce ==
    (pc = "goto_booknow" /\ FirstRvIdx(dom.elements) # 0) =>
        clickedIdx = FirstRvIdx(dom.elements)

\* C9: sendNotification never throws and always writes the bell, also when
\* the platform command fails or the platform has none; the probe's return
\* value and the loop's continuation are not affected.
C9_NotificationFailureSwallowed ==
    /\ bells = probeNotifs + loopNotifs
    /\ error # "notify"
    /\ (probeNotifs > 0 /\ retval # "none" /\ error = "none") => retval = "true"
    /\ (loopNotifs > 0) => pc \in {"loop_sleep", "check"}

\* C9 witness: on linux the command failed in the probe and in the loop, the
\* probe returned true, both bells were written and the loop goes on.
C9_Witness ==
    /\ config.platform = "linux" /\ pc = "loop_sleep" /\ retval = "true"
    /\ probeNotifs = 1 /\ loopNotifs = 1 /\ desktopSent = 0 /\ bells = 2

Rank(kind) ==
    CASE kind = "navigate" -> 1
      [] kind = "filter"   -> 2
      [] kind = "wait"     -> 3
      [] kind = "extract"  -> 4
      [] kind = "report"   -> 5
      [] kind = "sleep"    -> 6

ProbeOrder == <<"navigate", "filter", "navigate", "wait", "extract", "report">>

IsPrefix(a, b) ==
    Len(a) <= Len(b) /\ \A i \in 1..Len(a) : a[i] = b[i]

LoggedApi == SubSeq(apiResponses, 1, apiLogged)

C12_TwoOrNone ==
    (pc = "loop_sleep" /\ config.notify) =>
        IF retval = "true"
        THEN probeNotifs = 1 /\ loopNotifs = 1
        ELSE probeNotifs = 0 /\ loopNotifs = 0

\* C12 (amended): in loop mode with notify set, an iteration whose probe
\* returned true has dispatched exactly two notifications, one inside
\* checkAvailability while the session was open and one in runLoop after
\* the probe returned, on every such iteration; an iteration whose probe
\* did not return true has none from runLoop, and none at all unless the
\* probe found sites and failed in browser.close() after its report.
C12_TwoPerPositiveIteration ==
    /\ (pc = "loop_sleep" /\ config.notify) =>
          IF retval = "true"
          THEN probeNotifs = 1 /\ loopNotifs = 1
          ELSE /\ loopNotifs = 0
               /\ \/ probeNotifs = 0
                  \/ probeNotifs = 1 /\ error = "close" /\ results.sitesFound > 0
    /\ (pc = "close") => browser = "open"
    /\ (loopNotifs > 0) => (retval = "true" /\ activeProbes = 0 /\ browser = "closed")

\* C12 witness: a later iteration of the loop is positive and has its two
\* notifications.
C12_Witness ==
    /\ iter > 0 /\ pc = "loop_sleep" /\ config.notify /\ retval = "true"
    /\ probeNotifs = 1 /\ loopNotifs = 1

====
